---- MODULE Spec2Model ----
(***************************************************************************)
(* Model of InterruptHandler (livekit/agents/utils/interrupt_handler.py):  *)
(* the arbiter of the VAD -> STT race, its threading.Timer threads, the    *)
(* host callbacks of tests/simulate_vad_stt.py, and the text functions     *)
(* used by the lexical classification.                                     *)
(*                                                                         *)
(* A text is a sequence of one-character strings.  Every public method     *)
(* runs under self._lock, so a method is one atomic action; a timer thread *)
(* has its own position (waiting, fired and blocked on the lock, done).    *)
(***************************************************************************)
EXTENDS Integers, Sequences, FiniteSets, TLC

(***************************************************************************)
(* Bounds of the model.                                                    *)
(***************************************************************************)
\* number of threading.Timer objects (on_vad_user_started calls) in a run
MaxTimers == 2
\* number of logger or callback invocations that raise in a run
MaxFail == 1

(***************************************************************************)
(* Text functions.                                                         *)
(***************************************************************************)
LowerLetters ==
    {"a","b","c","d","e","f","g","h","i","j","k","l","m",
     "n","o","p","q","r","s","t","u","v","w","x","y","z"}

UpperLetters == {"Y", "S"}

\* str.lower() on one character
LowerChar(c) ==
    CASE c = "Y" -> "y"
      [] c = "S" -> "s"
      [] OTHER -> c

\* str.lower()
Lower(s) == [i \in 1..Len(s) |-> LowerChar(s[i])]

\* whitespace as seen by str.strip(), str.split() and the regex class \s
IsSpace(c) == c = " "

\* the regex class \w
IsWord(c) == c \in LowerLetters \cup UpperLetters \cup {"_"}

RECURSIVE LStrip(_)
LStrip(s) ==
    IF s # <<>> /\ IsSpace(Head(s)) THEN LStrip(Tail(s)) ELSE s

RECURSIVE RStrip(_)
RStrip(s) ==
    IF s # <<>> /\ IsSpace(s[Len(s)]) THEN RStrip(SubSeq(s, 1, Len(s) - 1)) ELSE s

\* str.strip()
Strip(s) == LStrip(RStrip(s))

\* str.split(): the maximal runs of non-whitespace characters, in order
RECURSIVE SplitFrom(_, _, _)
SplitFrom(s, cur, acc) ==
    IF s = <<>>
    THEN IF cur = <<>> THEN acc ELSE Append(acc, cur)
    ELSE IF IsSpace(Head(s))
         THEN SplitFrom(Tail(s), <<>>, IF cur = <<>> THEN acc ELSE Append(acc, cur))
         ELSE SplitFrom(Tail(s), Append(cur, Head(s)), acc)

Split(s) == SplitFrom(s, <<>>, <<>>)

\* " ".join(parts)
RECURSIVE Join(_)
Join(parts) ==
    IF parts = <<>> THEN <<>>
    ELSE IF Len(parts) = 1 THEN parts[1]
    ELSE parts[1] \o <<" ">> \o Join(Tail(parts))

\* re.sub(r"[^\w\s'-]", ' ', s)
SubPunct(s) ==
    [i \in 1..Len(s) |->
        IF IsWord(s[i]) \/ IsSpace(s[i]) \/ s[i] = "'" \/ s[i] = "-"
        THEN s[i] ELSE " "]

\* InterruptHandler._normalize
Normalize(s) == Join(Split(SubPunct(s)))

\* Python's `h in s` on strings: h occurs as a substring of s
IsSubstring(h, s) ==
    \E i \in 1..(Len(s) - Len(h) + 1) : SubSeq(s, i, i + Len(h) - 1) = h

(***************************************************************************)
(* Configuration (InterruptHandlerConfig defaults).                        *)
(***************************************************************************)
soft_words ==
    << <<"y","e","a","h">>, <<"o","k">>, <<"h","m","m">>,
       <<"r","i","g","h","t">>, <<"u","h","-","h","u","h">>,
       <<"m","h","m">>, <<"u","h"," ","h","u","h">> >>

hard_words ==
    << <<"w","a","i","t">>, <<"s","t","o","p">>, <<"n","o">>,
       <<"h","o","l","d"," ","o","n">>, <<"p","a","u","s","e">>,
       <<"c","a","n","c","e","l">>, <<"h","a","n","g"," ","o","n">>,
       <<"s","t","o","p"," ","t","h","a","t">>, <<"s","t","o","p"," ","i","t">> >>

InList(x, list) == \E i \in DOMAIN list : list[i] = x

\* the hard-word loop of on_stt_transcript: some hard word is a substring
HasHardWord(norm) ==
    \E n \in {norm} : \E i \in DOMAIN hard_words : IsSubstring(hard_words[i], n)

\* a variant whose length threshold is off by one
IsSoftTokenUpToThree(t) == InList(t, soft_words) \/ Len(t) <= 3

\* a token is a filler: a soft word or at most two characters long
IsSoftToken(t) == InList(t, soft_words) \/ Len(t) <= 2

\* only_soft of on_stt_transcript
OnlySoft(norm) ==
    \E tokens \in {Split(norm)} :
        \A i \in DOMAIN tokens : IsSoftToken(tokens[i])

\* combined of on_stt_transcript: the buffered texts joined, lowered, stripped
Combined(buf) == Strip(Lower(Join([i \in DOMAIN buf |-> buf[i].text])))

(***************************************************************************)
(* Inputs: the STT fragments delivered to on_stt_transcript.               *)
(***************************************************************************)
Texts ==
    { <<"o","k","a","y">>,                      \* scenario 1
      <<"y","e","a","h">>,                      \* scenarios 1 and 2
      <<"u","h","-","h","u","h">>,              \* scenario 1
      <<"n","o"," ","s","t","o","p">>,          \* scenario 3
      <<"Y","e","a","h">>,                      \* upper case
      <<"S","t","o","p","!">>,                  \* upper case and punctuation
      <<"b","u","t">>,                          \* content, no hard word
      <<"u","h",","," ","o","h">>,              \* two short tokens, punctuation
      <<" ","o","k"," ">>,                      \* surrounding whitespace
      <<"u","h"," ","h","u","h">> }             \* a soft phrase of two words

\* Transcript(text, is_final); the timestamp is read by nothing
Transcript(text, is_final) == [text |-> text, is_final |-> is_final]

\* the texts STT delivers as partial results; the others come as final ones
PartialTexts ==
    { <<"o","k","a","y">>, <<"y","e","a","h">>, <<"S","t","o","p","!">>,
      <<"u","h",","," ","o","h">> }

Transcripts == { Transcript(t, t \notin PartialTexts) : t \in Texts }

(***************************************************************************)
(* State.                                                                  *)
(***************************************************************************)
VARIABLES
    pending,    \* self._pending_vad
    buffer,     \* self._transcript_buffer
    timer,      \* self._timer: the id of a Timer, 0 for None
    thr,        \* position of each Timer thread
    finished,   \* each Timer's `finished` event, set by cancel()
    interval,   \* each Timer's interval in ms, 0 before it is created
    cfg,        \* validation_window_ms, and whether ignore_user_speech is supplied
    speaking,   \* the host's _agent_speaking, read by get_agent_speaking_state
    last,       \* the last step: its inputs, the callbacks it invoked
    win,        \* resolution callbacks invoked / returned for the current window
    scen,       \* progress of the run through simulate_scenario_1
    fails,      \* number of logger or callback invocations that failed
    lock        \* self._lock: "free", or "stuck" once its holder waits for it

vars == <<pending, buffer, timer, thr, finished, interval, cfg, speaking,
          last, win, scen, fails, lock>>

TimerIds == 1..MaxTimers

\* validation_window_ms default
DefaultWindowMs == 225
\* the floor of _start_timer
MinWindowMs == 50

\* the constructions of the handler the runs start from: the default window
\* with ignore_user_speech supplied, a window below the floor without it
Configs ==
    { [ms |-> DefaultWindowMs, has_ignore |-> TRUE],
      [ms |-> 10, has_ignore |-> FALSE] }

\* what a handler call may meet: nothing, the first or second logger call on
\* its path raising, the resolution callback raising, or the resolution
\* callback calling a method of the handler on the same thread
Faults == {"none", "log1", "log2", "cb", "reenter"}

\* the record of a call: op, the handler's pending flag, buffer length and the
\* host's speaking flag at entry, the fragment given, the combined text, the
\* value read from get_agent_speaking_state ("nq": not queried), the resolution
\* callbacks invoked, the argument of process_user_speech_normally, the
\* exception that ended the call ("blocked": it never returned), whether
\* _clear_pending had run when the callback was invoked, and for a timer
\* thread its id and whether self._timer was its own Timer at entry
NoCall ==
    [op |-> "init", pend |-> FALSE, nbuf |-> 0, spk |-> FALSE, frag |-> <<>>,
     combined |-> <<>>, sp |-> "nq", calls |-> <<>>, arg |-> <<>>,
     exc |-> "none", cleared |-> FALSE, tid |-> 0, own |-> FALSE]

Call(op) ==
    [NoCall EXCEPT !.op = op, !.pend = pending, !.nbuf = Len(buffer),
                   !.spk = speaking]

Init ==
    /\ pending = FALSE
    /\ buffer = <<>>
    /\ timer = 0
    /\ thr = [i \in TimerIds |-> "unborn"]
    /\ finished = [i \in TimerIds |-> FALSE]
    /\ interval = [i \in TimerIds |-> 0]
    /\ cfg \in Configs
    /\ speaking = FALSE
    /\ last = NoCall
    /\ win = [n |-> 0, ok |-> 0]
    /\ scen = [step |-> 0, stop |-> FALSE, ignore |-> FALSE]
    /\ fails = 0
    /\ lock = "free"

(***************************************************************************)
(* threading.Timer, as the handler uses it.                                *)
(*   start():  the thread waits for `interval` on its `finished` event     *)
(*   cancel(): sets `finished`; a thread still waiting then ends without   *)
(*             calling its function; one that has already timed out calls  *)
(*             _on_timer_expired all the same                              *)
(***************************************************************************)
Max(a, b) == IF a >= b THEN a ELSE b

\* the timer is scheduled and can still expire
Armed(i) == thr[i] = "waiting" /\ ~finished[i]

\* the next Timer object to be created, 0 when the run has used them all
NextId ==
    IF \E i \in TimerIds : thr[i] = "unborn"
    THEN CHOOSE i \in TimerIds :
            thr[i] = "unborn" /\ \A j \in TimerIds : thr[j] = "unborn" => i <= j
    ELSE 0

\* `if self._timer: self._timer.cancel()`
Cancel(fin, h) == IF h # 0 THEN [fin EXCEPT ![h] = TRUE] ELSE fin

\* ms of _start_timer
WindowMs(ms) == Max(MinWindowMs, ms)

\* a variant that replaces the timer without cancelling the previous one
StartTimerNoCancel(i) ==
    /\ finished' = finished
    /\ timer' = i
    /\ thr' = [thr EXCEPT ![i] = "waiting"]
    /\ interval' = [interval EXCEPT ![i] = WindowMs(cfg.ms)]

\* InterruptHandler._start_timer, without its trailing logger call
StartTimer(i) ==
    /\ finished' = Cancel(finished, timer)
    /\ timer' = i
    /\ thr' = [thr EXCEPT ![i] = "waiting"]
    /\ interval' = [interval EXCEPT ![i] = WindowMs(cfg.ms)]

\* a variant that forgets to reset the pending flag
ClearPendingKeepsFlag ==
    /\ pending' = pending
    /\ buffer' = <<>>
    /\ finished' = Cancel(finished, timer)
    /\ timer' = 0

\* a variant that leaves the timer scheduled and its handle set
ClearPendingKeepsTimer ==
    /\ pending' = FALSE
    /\ buffer' = <<>>
    /\ UNCHANGED <<finished, timer>>

\* InterruptHandler._clear_pending
ClearPending ==
    /\ pending' = FALSE
    /\ buffer' = <<>>
    /\ finished' = Cancel(finished, timer)
    /\ timer' = 0

(***************************************************************************)
(* The host of tests/simulate_vad_stt.py and the bookkeeping of a call.    *)
(***************************************************************************)
Invoked(rec, cb) == \E i \in DOMAIN rec.calls : rec.calls[i] = cb

\* stop_agent_immediately of the host clears _agent_speaking
SpeakingAfter(rec) ==
    IF Invoked(rec, "stop") /\ rec.exc # "callback" THEN FALSE ELSE speaking

\* resolution callbacks invoked, and returned, for the window open at entry
WinAfter(rec) ==
    IF rec.pend
    THEN [n  |-> win.n + Len(rec.calls),
          ok |-> win.ok + (IF rec.exc \in {"callback", "blocked"}
                           THEN 0 ELSE Len(rec.calls))]
    ELSE win

ScenOff == [step |-> 0, stop |-> FALSE, ignore |-> FALSE]

ScenStep(rec, n) ==
    [step   |-> n,
     stop   |-> scen.stop \/ Invoked(rec, "stop"),
     ignore |-> scen.ignore \/ Invoked(rec, "ignore")]

\* simulate_scenario_1_long_explanation, followed call by call
ScenAfter(rec) ==
    IF rec.exc # "none" THEN ScenOff
    ELSE IF rec.op = "started" /\ speaking THEN [ScenOff EXCEPT !.step = 1]
    ELSE IF scen.step = 1 /\ rec.op = "vad" THEN ScenStep(rec, 2)
    ELSE IF /\ scen.step = 2 /\ rec.op = "stt"
            /\ rec.frag = <<Transcript(<<"o","k","a","y">>, FALSE)>>
         THEN ScenStep(rec, 3)
    ELSE IF /\ scen.step = 3 /\ rec.op = "stt"
            /\ rec.frag = <<Transcript(<<"y","e","a","h">>, FALSE)>>
         THEN ScenStep(rec, 4)
    ELSE IF /\ scen.step = 4 /\ rec.op = "stt"
            /\ rec.frag = <<Transcript(<<"u","h","-","h","u","h">>, TRUE)>>
         THEN ScenStep(rec, 5)
    ELSE ScenOff

\* a fault is met only while the run's budget of failures lasts
MayFail(f) == f = "none" \/ fails < MaxFail

Excn(f) ==
    CASE f = "none"    -> "none"
      [] f = "cb"      -> "callback"
      [] f = "reenter" -> "blocked"
      [] OTHER         -> "logger"

\* `with self._lock:` of a method: threading.Lock is not reentrant, so a
\* callback that calls a method of the handler waits for the lock its own
\* thread holds, and the lock is never released
LockAfter(rec) == IF rec.exc = "blocked" THEN "stuck" ELSE "free"

Record(rec) ==
    /\ lock = "free"
    /\ lock' = LockAfter(rec)
    /\ last' = rec
    /\ fails' = IF rec.exc = "none" THEN fails ELSE fails + 1
    /\ speaking' = SpeakingAfter(rec)
    /\ scen' = ScenAfter(rec)

(***************************************************************************)
(* The handler's operations.                                               *)
(***************************************************************************)
\* on_vad_user_started; its logger calls: line 61, then line 134
OnVadUserStarted(f) ==
    /\ f \in {"none", "log1", "log2"}
    /\ MayFail(f)
    /\ NextId # 0
    /\ LET rec == [Call("vad") EXCEPT !.exc = Excn(f)]
       IN  /\ Record(rec)
           /\ IF f = "log1"
              THEN UNCHANGED <<pending, buffer, timer, thr, finished, interval, win>>
              ELSE /\ pending' = TRUE
                   /\ buffer' = <<>>
                   /\ StartTimer(NextId)
                   /\ win' = [n |-> 0, ok |-> 0]
    /\ UNCHANGED cfg

\* agent_started_speaking; its logger call follows the reset
AgentStartedSpeaking(f) ==
    /\ f \in {"none", "log1"}
    /\ MayFail(f)
    /\ ClearPending
    /\ Record([Call("started") EXCEPT !.exc = Excn(f)])
    /\ UNCHANGED <<thr, interval, cfg, win>>

\* agent_stopped_speaking
AgentStoppedSpeaking(f) ==
    /\ f \in {"none", "log1"}
    /\ MayFail(f)
    /\ ClearPending
    /\ Record([Call("stopped") EXCEPT !.exc = Excn(f)])
    /\ UNCHANGED <<thr, interval, cfg, win>>

\* a variant that looks for hard words only while the agent speaks
ClassifyHardOnlyWhileSpeaking(norm, sp) ==
    IF sp
    THEN (IF HasHardWord(norm) THEN "hard"
          ELSE IF OnlySoft(norm) THEN "soft" ELSE "nonsoft")
    ELSE "silent"

\* the branch of on_stt_transcript taken for a normalized text: the hard-word
\* loop first, then the agent-speaking branch
Classify(norm, sp) ==
    IF HasHardWord(norm) THEN "hard"
    ELSE IF sp THEN (IF OnlySoft(norm) THEN "soft" ELSE "nonsoft")
    ELSE "silent"

\* the callback each branch of on_stt_transcript invokes
CallbackOf(kind) ==
    CASE kind = "hard"    -> "stop"
      [] kind = "soft"    -> "ignore"
      [] kind = "nonsoft" -> "stop"
      [] kind = "silent"  -> "process"

\* `if self.ignore_user_speech:` guards the optional callback
CallsOf(cb, has_ignore) ==
    IF cb = "ignore" /\ ~has_ignore THEN <<>> ELSE <<cb>>

\* a variant that hands over the triggering fragment alone
ProcessArgLastFragment(combined, tr) ==
    Transcript(Strip(Lower(tr.text)), tr.is_final)

\* the transcript handed to process_user_speech_normally on the silent branch
ProcessArg(combined, tr) == Transcript(combined, tr.is_final)

\* a variant that forwards the text lowered and stripped, as the pending
\* branch does
ForwardedLowered(tr) == Transcript(Strip(Lower(tr.text)), tr.is_final)

\* the transcript handed over when no window is pending: the one given
Forwarded(tr) == tr

\* on_stt_transcript with no window pending: logger (line 71), then the
\* transcript is forwarded as it came
SttNoPending(tr) ==
    /\ ~pending
    /\ \E f \in {"none", "log1", "cb", "reenter"} :
        /\ MayFail(f)
        /\ Record([Call("stt") EXCEPT
                     !.frag = <<tr>>,
                     !.calls = IF f = "log1" THEN <<>> ELSE <<"process">>,
                     !.arg = IF f = "log1" THEN <<>> ELSE <<Forwarded(tr)>>,
                     !.exc = Excn(f)])
    /\ UNCHANGED <<pending, buffer, timer, finished, win>>

\* on_stt_transcript with a window pending: append, logger (line 79), classify,
\* _clear_pending, logger (lines 85, 96, 103, 109), callback
SttPending(tr) ==
    /\ pending
    /\ \E combined \in {Combined(Append(buffer, tr))} :
       \E kind \in {Classify(Normalize(combined), speaking)} :
       \E f \in Faults :
         LET cb    == CallbackOf(kind)
             calls == IF f \in {"log1", "log2"} THEN <<>>
                      ELSE CallsOf(cb, cfg.has_ignore)
             rec   == [Call("stt") EXCEPT
                         !.frag = <<tr>>,
                         !.combined = combined,
                         !.sp = IF f = "log1" \/ kind = "hard" THEN "nq"
                                ELSE IF speaking THEN "T" ELSE "F",
                         !.calls = calls,
                         !.arg = IF cb = "process" /\ calls # <<>>
                                 THEN <<ProcessArg(combined, tr)>> ELSE <<>>,
                         !.cleared = (f # "log1"),
                         !.exc = Excn(f)]
         IN  /\ MayFail(f)
             /\ f \in {"cb", "reenter"} => calls # <<>>
             /\ Record(rec)
             /\ win' = WinAfter(rec)
             /\ IF f = "log1"
                THEN /\ buffer' = Append(buffer, tr)
                     /\ UNCHANGED <<pending, timer, finished>>
                ELSE ClearPending

\* InterruptHandler.on_stt_transcript
OnSttTranscript(tr) ==
    /\ \/ SttNoPending(tr)
       \/ SttPending(tr)
    /\ UNCHANGED <<thr, interval, cfg>>

\* a variant whose default does not look at the speaking state
TimeoutCallsAlwaysIgnore(sp, has_ignore) ==
    IF has_ignore THEN <<"ignore">> ELSE <<>>

\* the default of _on_timer_expired: ignore while the agent speaks, else nothing
TimeoutCalls(sp, has_ignore) ==
    IF sp /\ has_ignore THEN <<"ignore">> ELSE <<>>

\* a variant without the re-check of the pending flag
StillPendingUnchecked == TRUE

\* `if not self._pending_vad: return` of _on_timer_expired
StillPending == pending

\* Timer.run: the wait timed out before cancel(); the thread goes on to call
\* _on_timer_expired, where it first has to take the lock
TimerFire(i) ==
    /\ Armed(i)
    /\ thr' = [thr EXCEPT ![i] = "fired"]
    /\ scen' = ScenOff
    /\ last' = [Call("fire") EXCEPT !.tid = i]
    /\ UNCHANGED <<pending, buffer, timer, finished, interval, cfg, speaking,
                   win, fails, lock>>

\* InterruptHandler._on_timer_expired, run by the thread of timer i:
\* re-check of _pending_vad, logger (140), speaking state, logger (143, 150),
\* ignore_user_speech, _clear_pending last
OnTimerExpired(i, f) ==
    /\ thr[i] = "fired"
    /\ MayFail(f)
    /\ thr' = [thr EXCEPT ![i] = IF f = "reenter" THEN "blocked" ELSE "done"]
    /\ LET calls == IF f \in {"log1", "log2"} THEN <<>>
                    ELSE TimeoutCalls(speaking, cfg.has_ignore)
           rec   == [Call("timer") EXCEPT
                       !.tid = i,
                       !.own = (timer = i),
                       !.sp = IF ~StillPending \/ f = "log1" THEN "nq"
                              ELSE IF speaking THEN "T" ELSE "F",
                       !.calls = IF StillPending THEN calls ELSE <<>>,
                       !.exc = Excn(f)]
       IN  /\ ~StillPending => f = "none"
           /\ f \in {"cb", "reenter"} => calls # <<>>
           /\ Record(rec)
           /\ win' = WinAfter(rec)
           /\ IF StillPending /\ f = "none"
              THEN ClearPending
              ELSE UNCHANGED <<pending, buffer, timer, finished>>
    /\ UNCHANGED <<interval, cfg>>

\* the host sets _agent_speaking (simulate_vad_stt.py lines 30, 47, 57, 65)
HostSetSpeaking(b) ==
    /\ speaking # b
    /\ speaking' = b
    /\ scen' = ScenOff
    /\ last' = Call("host")
    /\ UNCHANGED <<pending, buffer, timer, thr, finished, interval, cfg,
                   win, fails, lock>>

Next ==
    \/ \E f \in Faults : OnVadUserStarted(f)
    \/ \E tr \in Transcripts : OnSttTranscript(tr)
    \/ \E f \in Faults : AgentStartedSpeaking(f)
    \/ \E f \in Faults : AgentStoppedSpeaking(f)
    \/ \E i \in TimerIds : TimerFire(i)
    \/ \E i \in TimerIds, f \in Faults : OnTimerExpired(i, f)
    \/ \E b \in BOOLEAN : HostSetSpeaking(b)

Spec == Init /\ [][Next]_vars

(***************************************************************************)
(* Runs in which no logger and no callback fails, with Timer threads that  *)
(* are scheduled fairly.  A Timer whose thread has ended is forgotten, so  *)
(* that any number of windows can be opened with MaxTimers Timers alive.   *)
(***************************************************************************)
\* Timer.run has returned (its function was called, or cancel() came before
\* the timeout) and the handler no longer holds the Timer
TimerReclaimed(i) ==
    /\ i # timer
    /\ thr[i] = "done" \/ (thr[i] = "waiting" /\ finished[i])
    /\ thr' = [thr EXCEPT ![i] = "unborn"]
    /\ finished' = [finished EXCEPT ![i] = FALSE]
    /\ interval' = [interval EXCEPT ![i] = 0]
    /\ UNCHANGED <<pending, buffer, timer, cfg, speaking, last, win, scen,
                   fails, lock>>

\* an on_stt_transcript call in which nothing raises and that returns
SttReturns(tr) == OnSttTranscript(tr) /\ fails' = fails

NextLive ==
    \/ OnVadUserStarted("none")
    \/ \E tr \in Transcripts : SttReturns(tr)
    \/ AgentStartedSpeaking("none")
    \/ AgentStoppedSpeaking("none")
    \/ \E i \in TimerIds : TimerFire(i)
    \/ \E i \in TimerIds : OnTimerExpired(i, "none")
    \/ \E b \in BOOLEAN : HostSetSpeaking(b)
    \/ \E i \in TimerIds : TimerReclaimed(i)

\* a Timer that stays armed times out, and a thread waiting for the lock gets it
TimerFairness ==
    \A i \in TimerIds :
        /\ WF_vars(TimerFire(i))
        /\ WF_vars(OnTimerExpired(i, "none"))

SpecLive == Init /\ [][NextLive]_vars /\ TimerFairness

(***************************************************************************)
(* Properties.                                                             *)
(***************************************************************************)
\* Idle: no window pending, nothing buffered, no timer handle
Idle == ~pending /\ buffer = <<>> /\ timer = 0

\* no Timer is scheduled and still able to expire
NoTimerArmed == \A i \in TimerIds : ~Armed(i)

\* the last step was an on_stt_transcript call that found a window pending
SttInWindow == last.op = "stt" /\ last.pend

\* some configured hard word is a substring of the normalized combined text
HardInText(combined) ==
    \E n \in {Normalize(combined)} :
        \E i \in DOMAIN hard_words : IsSubstring(hard_words[i], n)

\* every whitespace token of the normalized combined text is a soft word or
\* at most two characters long
AllTokensFiller(combined) ==
    \E toks \in {Split(Normalize(combined))} :
        \A i \in DOMAIN toks :
            (\E j \in DOMAIN soft_words : soft_words[j] = toks[i]) \/ Len(toks[i]) <= 2

\* C1: an on_stt_transcript call made while a window is pending, whose
\* normalized combined text contains a configured hard word as a substring,
\* invokes stop_agent_immediately exactly once and nothing else, and leaves
\* the handler Idle with no timer armed, whatever the agent's speaking state
\* (for every call in which the logger does not raise).
C1_HardWordStops ==
    (SttInWindow /\ last.exc # "logger" /\ HardInText(last.combined))
        => (last.calls = <<"stop">> /\ Idle /\ NoTimerArmed)

\* a hard word inside punctuation and upper case stopped a silent agent
C1_Witness ==
    /\ SttInWindow
    /\ last.exc = "none"
    /\ ~last.spk
    /\ last.frag = <<Transcript(<<"S","t","o","p","!">>, FALSE)>>
    /\ last.calls = <<"stop">>
    /\ Idle

\* C2: an on_stt_transcript call made while a window is pending and the agent
\* is speaking, with no hard word in the normalized combined text: if every
\* token is a soft word or at most two characters long, ignore_user_speech is
\* invoked (when supplied) and stop_agent_immediately is not; otherwise
\* stop_agent_immediately is invoked and ignore_user_speech is not; in both
\* cases process_user_speech_normally is not invoked and the handler is Idle
\* (for every call in which the logger does not raise).
C2_SpeakingSoftOrInterrupt ==
    (SttInWindow /\ last.exc # "logger" /\ last.spk /\ ~HardInText(last.combined))
        => /\ AllTokensFiller(last.combined)
                => last.calls = (IF cfg.has_ignore THEN <<"ignore">> ELSE <<>>)
           /\ ~AllTokensFiller(last.combined) => last.calls = <<"stop">>
           /\ last.arg = <<>>
           /\ Idle

\* two short tokens that are no soft words were ignored while the agent spoke
C2_Witness ==
    /\ SttInWindow
    /\ last.exc = "none"
    /\ last.spk
    /\ last.frag = <<Transcript(<<"u","h",","," ","o","h">>, FALSE)>>
    /\ last.calls = <<"ignore">>
    /\ Idle

\* C3: in reference scenario 1 (agent speaking, agent_started_speaking,
\* on_vad_user_started, then "okay", "yeah", "uh-huh" before the timer
\* expires, ignore_user_speech supplied) ignore_user_speech is invoked and
\* stop_agent_immediately is never invoked.
C3_Scenario1Ignored ==
    (scen.step = 5 /\ cfg.has_ignore) => (scen.ignore /\ ~scen.stop)

\* the texts of the fragments of a buffer, space-joined in arrival order
JoinedTexts(buf) == Join([i \in DOMAIN buf |-> buf[i].text])

\* an on_stt_transcript step taken with a window pending, the agent silent,
\* no hard word in the combined text and no logger failure
SilentSttStep ==
    /\ pending
    /\ last'.op = "stt"
    /\ last'.pend
    /\ ~last'.spk
    /\ last'.exc # "logger"
    /\ ~HardInText(last'.combined)

\* C4, as stated: such a call invokes process_user_speech_normally exactly
\* once with the space-joined texts of the fragments received in the window
\* and the is_final flag of the triggering fragment, invokes nothing else and
\* leaves the handler Idle.
C4_ProcessGetsJoinedTexts ==
    [][SilentSttStep =>
        /\ last'.calls = <<"process">>
        /\ last'.arg = <<Transcript(JoinedTexts(Append(buffer, last'.frag[1])),
                                    last'.frag[1].is_final)>>
        /\ Idle']_vars

\* C4, amended: the text handed over is that join lower-cased and stripped of
\* leading and trailing whitespace.
C4_ProcessGetsLoweredJoinedTexts ==
    [][SilentSttStep =>
        /\ last'.calls = <<"process">>
        /\ last'.arg = <<Transcript(
                           Strip(Lower(JoinedTexts(Append(buffer, last'.frag[1])))),
                           last'.frag[1].is_final)>>
        /\ Idle']_vars

\* a final upper-case fragment joined a buffered partial one and the two
\* were handed over, lowered, with the flag of the second
C4_Witness ==
    /\ SttInWindow
    /\ ~last.spk
    /\ last.nbuf = 1
    /\ last.frag = <<Transcript(<<"Y","e","a","h">>, TRUE)>>
    /\ last.calls = <<"process">>
    /\ last.arg = <<Transcript(<<"o","k","a","y"," ","y","e","a","h">>, TRUE)>>
    /\ Idle

\* the last step was the expiry handler of the timer of the pending window
OwnTimerExpired == last.op = "timer" /\ last.pend /\ last.own

\* C5: when the validation timer of a still pending window expires, the
\* handler invokes ignore_user_speech (when supplied) and nothing else if the
\* agent is speaking, no callback at all if it is not, and is Idle afterwards
\* with no timer armed (for every expiry in which nothing raises).
C5_TimeoutDefault ==
    (OwnTimerExpired /\ last.exc = "none")
        => /\ last.calls = (IF last.spk /\ cfg.has_ignore THEN <<"ignore">> ELSE <<>>)
           /\ last.arg = <<>>
           /\ Idle
           /\ NoTimerArmed

\* the timer of a window expired while the agent spoke and ignore fired
C5_Witness ==
    /\ OwnTimerExpired
    /\ last.exc = "none"
    /\ last.spk
    /\ last.calls = <<"ignore">>
    /\ Idle

\* C6: the expiry handler of a timer that is no longer self._timer (replaced
\* by on_vad_user_started, or dropped when its window was resolved) invokes
\* no callback and leaves pending, buffer and timer alone.
C6_StaleTimerInert ==
    [][(last'.op = "timer" /\ ~last'.own)
        => (last'.calls = <<>> /\ UNCHANGED <<pending, buffer, timer>>)]_vars

C8_CleanupDespiteCallbackFailure ==
    (last.pend /\ last.exc = "callback") => (Idle /\ NoTimerArmed)

\* C9: a call in which the logger raises does what it does when the logger
\* succeeds: on_vad_user_started opens the window and arms its timer, the
\* agent-state calls and the resolutions of a pending window leave the
\* handler Idle, and on_stt_transcript invokes its callback.
C9_LoggerFailureHarmless ==
    last.exc = "logger"
        => /\ last.op = "vad" => (pending /\ buffer = <<>> /\ timer # 0 /\ Armed(timer))
           /\ last.op \in {"started", "stopped"} => Idle
           /\ (last.op \in {"stt", "timer"} /\ last.pend) => Idle
           /\ (last.op = "stt" /\ ~last.pend) => last.calls = <<"process">>
           /\ (last.op = "stt" /\ last.pend /\ cfg.has_ignore) => Len(last.calls) = 1

\* C10: on_vad_user_started called while a window is pending leaves pending
\* true and the buffer empty, cancels the previous timer and arms exactly
\* one new timer, for max(50, validation_window_ms), and invokes no
\* resolution callback (for every call in which the logger does not raise).
C10_VadRestartsWindow ==
    [][(pending /\ last'.op = "vad" /\ last'.exc = "none")
        => /\ pending'
           /\ buffer' = <<>>
           /\ timer # 0 => finished'[timer]
           /\ timer' # 0 /\ timer' # timer
           /\ thr[timer'] = "unborn"
           /\ \A i \in TimerIds :
                (thr'[i] = "waiting" /\ ~finished'[i]) <=> i = timer'
           /\ interval'[timer'] = (IF cfg.ms >= MinWindowMs THEN cfg.ms ELSE MinWindowMs)
           /\ last'.calls = <<>>
           /\ win'.n = 0]_vars

\* a second on_vad_user_started dropped a buffered fragment and re-armed
C10_Witness ==
    /\ last.op = "vad"
    /\ last.pend
    /\ last.nbuf = 1
    /\ last.exc = "none"
    /\ pending
    /\ buffer = <<>>
    /\ timer = 2
    /\ finished[1]
    /\ Armed(2)

\* C11: after agent_started_speaking or agent_stopped_speaking, whatever the
\* state before the call, the handler is Idle, no Timer can still expire as
\* the window's own, and no callback was invoked
C11_AgentStateResets ==
    last.op \in {"started", "stopped"}
        => (Idle /\ NoTimerArmed /\ last.calls = <<>> /\ last.sp = "nq")

\* agent_stopped_speaking closed a window whose timer was still scheduled
C11_Witness ==
    /\ last.op = "stopped"
    /\ last.pend
    /\ Idle
    /\ \E i \in TimerIds : thr[i] = "waiting" /\ finished[i]

\* the last step was an on_stt_transcript call that found no window pending
\* and whose logger call did not raise
SttNoWindow == last.op = "stt" /\ ~last.pend /\ last.exc # "logger"

\* C12: a transcript that arrives while no window is pending is handed to
\* process_transcript once, as the very record that was given, stop and
\* ignore are not invoked, and pending, buffer and timer stay as they were
C12_NoWindowForwards ==
    [][(last'.op = "stt" /\ ~pending /\ last'.exc # "logger")
          => (/\ last'.calls = <<"process">>
              /\ last'.arg = last'.frag
              /\ UNCHANGED <<pending, buffer, timer, finished>>)]_vars

\* a capitalised hard word is forwarded untouched while the agent speaks
C12_Witness ==
    /\ SttNoWindow
    /\ last.spk
    /\ last.arg = <<Transcript(<<"S","t","o","p","!">>, FALSE)>>
    /\ Idle

\* the last step was an on_stt_transcript call that opened the buffer of a
\* pending window with a text that is, as given, an entry of soft_words,
\* while the agent was speaking and ignore_user_speech was supplied
SoftWordAlone ==
    /\ SttInWindow
    /\ last.exc # "logger"
    /\ last.spk
    /\ last.nbuf = 0
    /\ cfg.has_ignore
    /\ InList(last.frag[1].text, soft_words)

\* C13: every entry of the default soft_words, the two-word phrase "uh huh"
\* included, received alone while a window is pending and the agent speaks,
\* is classified soft: ignore_user_speech is invoked and
\* stop_agent_immediately is not
C13_SoftWordAloneIgnored == SoftWordAlone => last.calls = <<"ignore">>

C15_ClearedBeforeCallback ==
    (last.op \in {"stt", "timer"} /\ last.pend /\ last.calls # <<>>)
        => last.cleared

\* between operations the buffer holds fragments, and the timer handle is
\* set, only while a window is pending
BufferAndTimerNeedWindow ==
    /\ buffer # <<>> => pending
    /\ timer # 0 => pending

\* C16: the buffer is non-empty and the timer handle set only while a window
\* is pending; a step that ends a window empties the buffer, cancels the
\* Timer of the handle and unsets the handle, all in that one step; and
\* _clear_pending applied to an Idle handler (as agent_started_speaking and
\* agent_stopped_speaking do) changes nothing
C16_WindowOwnsBufferAndTimer ==
    /\ BufferAndTimerNeedWindow
    /\ [][/\ BufferAndTimerNeedWindow'
          /\ (pending /\ ~pending')
                => (/\ buffer' = <<>>
                    /\ timer' = 0
                    /\ timer # 0 => finished'[timer])
          /\ (Idle /\ last'.op \in {"started", "stopped"})
                => UNCHANGED <<pending, buffer, timer, finished, thr>>]_vars

\* a window that held a buffered fragment was ended by agent_started_speaking
C16_Witness ==
    /\ last.op = "started"
    /\ last.pend
    /\ last.nbuf = 1
    /\ Idle
    /\ NoTimerArmed

\* Timers that are live: started, cancel() not called on them, and their
\* expiry handler not yet completed
LiveTimers ==
    {i \in TimerIds : thr[i] \in {"waiting", "fired", "blocked"} /\ ~finished[i]}

\* C17: at most one Timer is live at any time, and the expiry handler of a
\* Timer runs at most once: it runs for a Timer that has timed out, and a
\* Timer whose handler has run never times out or runs again
C17_OneLiveTimer ==
    /\ Cardinality(LiveTimers) <= 1
    /\ [][/\ Cardinality(LiveTimers') <= 1
          /\ \A i \in TimerIds :
                /\ (last'.op = "timer" /\ last'.tid = i)
                      => (thr[i] = "fired" /\ thr'[i] \in {"done", "blocked"})
                /\ thr[i] \in {"done", "blocked"} => thr'[i] = thr[i]]_vars

\* a second window was opened after the first Timer had timed out: the new
\* Timer is the live one, the old one is cancelled with its handler yet to run
C17_Witness ==
    /\ LiveTimers = {2}
    /\ timer = 2
    /\ thr[1] = "fired"
    /\ finished[1]

\* C18: an expiry handler that finds no window pending does nothing: it
\* invokes no callback, does not ask whether the agent is speaking, raises
\* nothing and leaves the handler's state as it was
C18_LateExpiryIsNoOp ==
    [][(last'.op = "timer" /\ ~pending)
          => (/\ last'.calls = <<>>
              /\ last'.sp = "nq"
              /\ last'.exc = "none"
              /\ UNCHANGED <<pending, buffer, timer, finished, interval,
                             speaking, win, fails, lock>>)]_vars

\* a Timer timed out, a transcript resolved its window and cancelled it too
\* late, and its handler then ran and found nothing to do
C18_Witness ==
    /\ last.op = "timer"
    /\ ~last.pend
    /\ finished[last.tid]
    /\ thr[last.tid] = "done"
    /\ Idle

C20_OperationsReturn == last.exc # "blocked" /\ lock = "free"

====
